---- MODULE Spec2Model ----
(***************************************************************************)
(* A model of Experts_tutorial/Text/text_generation.py: the character      *)
(* vocabulary and the vectorization of the text, the cutting of the text   *)
(* into training examples, model.fit with its checkpoint callback, the     *)
(* restore of the latest checkpoint, generate_text, and the custom         *)
(* training loop.                                                          *)
(*                                                                         *)
(* Characters are Unicode code points (naturals), strings and lists are    *)
(* sequences of them.  Python and numpy index from 0, TLA+ sequences from  *)
(* 1: Index is the only place where the two meet.  The RNN's weights are   *)
(* abstracted to the number of optimizer steps that produced them, and the *)
(* RNN's hidden state to the list of the inputs it has consumed since its  *)
(* last reset: that list determines the state, and two different lists are *)
(* two different states.                                                   *)
(***************************************************************************)
EXTENDS Integers, Sequences, FiniteSets, TLC

\* ---------------------------------------------------------------- bounds
\* Code points 1..MaxChar stand for the characters a text may hold.
MaxChar == 3
\* Every text of at most MaxTextLen characters is an input.
MaxTextLen == 4
\* The longest texts fill MaxBatches training batches.
MaxBatches == 2
\* Start strings of generate_text have at most MaxStartLen characters.
MaxStartLen == 2
\* Chunks handed to split_input_target on its own have at most MaxChunkLen ids.
MaxChunkLen == 4
\* The long texts hold at most MaxVocab different characters.
MaxVocab == 3

\* The script's sizes, scaled down.  The source sets seq_length = 100
\* (line 89), BATCH_SIZE = 64 (line 136) and num_generate = 1000 (line 314);
\* the code is parametric in all three.
seq_length == 2
BATCH_SIZE == 2
num_generate == 3

\* ------------------------------------------------------ program constants
BUFFER_SIZE == 10000
EPOCHS == 10

Alphabet == 1..MaxChar

\* ------------------------------------------------------- Python built-ins
\* len(xs)
len(xs) == Len(xs)

\* set(xs): the elements of a list
set(xs) == {xs[k] : k \in DOMAIN xs}

Min(S) == CHOOSE m \in S : \A x \in S : m <= x
Max(S) == CHOOSE m \in S : \A x \in S : m >= x

\* xs[k] for a list or an array, k counted from 0, negative k from the end
Index(xs, k) == IF k >= 0 THEN xs[k + 1] ELSE xs[Len(xs) + k + 1]

\* whether xs[k] is defined (otherwise Python raises IndexError)
InRange(xs, k) == -Len(xs) <= k /\ k < Len(xs)

\* xs[:stop]
SliceTo(xs, stop) ==
    LET n == Len(xs)
        e == IF stop < 0 THEN (IF n + stop < 0 THEN 0 ELSE n + stop)
                         ELSE (IF stop > n THEN n ELSE stop)
    IN  SubSeq(xs, 1, e)

\* xs[start:]
SliceFrom(xs, start) ==
    LET n == Len(xs)
        b == IF start < 0 THEN (IF n + start < 0 THEN 0 ELSE n + start)
                          ELSE (IF start > n THEN n ELSE start)
    IN  SubSeq(xs, b + 1, n)

\* sorted(S) of a set: its elements in ascending order
RECURSIVE sorted(_)
sorted(S) ==
    IF S = {} THEN <<>>
    ELSE LET m == Min(S) IN <<m>> \o sorted(S \ {m})

\* sorted(xs) of a list: a stable insertion of each element, duplicates kept
RECURSIVE sorted_list(_)
sorted_list(xs) ==
    IF xs = <<>> THEN <<>>
    ELSE LET rest == sorted_list(Tail(xs))
             x == Head(xs)
             k == Cardinality({j \in DOMAIN rest : rest[j] < x})
         IN  SubSeq(rest, 1, k) \o <<x>> \o SubSeq(rest, k + 1, Len(rest))

\* ------------------------------------------------- vocabulary, lookup tables
\* a mutant: the list is sorted without the set, so duplicates stay
unique_chars_keeping_duplicates(t) == sorted_list(t)

\* vocab = sorted(set(text))
unique_chars(t) == sorted(set(t))

\* a mutant: enumerate counted from 1
make_char2idx_from_one(v) ==
    [u \in set(v) |-> Max({k : k \in {j \in DOMAIN v : v[j] = u}})]

\* {u: i for i, u in enumerate(vocab)}: a later pair overwrites an earlier one
make_char2idx(v) ==
    [u \in set(v) |-> Max({k - 1 : k \in {j \in DOMAIN v : v[j] = u}})]

\* np.array(vocab)
make_idx2char(v) == v

\* a mutant: the lookup of the previous character
vectorize_shifted(c2i, t) == [k \in DOMAIN t |-> c2i[t[IF k = 1 THEN 1 ELSE k - 1]]]

\* np.array([char2idx[c] for c in text])
vectorize(c2i, t) == [k \in DOMAIN t |-> c2i[t[k]]]

\* ------------------------------------------------------------ tf.data
\* a mutant: drop_remainder is ignored
RECURSIVE batch_keep_remainder(_, _, _)
batch_keep_remainder(xs, n, drop_remainder) ==
    IF Len(xs) = 0 THEN <<>>
    ELSE IF Len(xs) < n THEN <<xs>>
    ELSE <<SubSeq(xs, 1, n)>> \o batch_keep_remainder(SubSeq(xs, n + 1, Len(xs)), n, drop_remainder)

\* Dataset.batch(n, drop_remainder): consecutive groups of n elements, a
\* shorter last group kept unless drop_remainder
RECURSIVE batch(_, _, _)
batch(xs, n, drop_remainder) ==
    IF Len(xs) = 0 THEN <<>>
    ELSE IF Len(xs) < n THEN (IF drop_remainder THEN <<>> ELSE <<xs>>)
    ELSE <<SubSeq(xs, 1, n)>> \o batch(SubSeq(xs, n + 1, Len(xs)), n, drop_remainder)

\* a mutant: the target is not shifted
split_input_target_unshifted(chunk) ==
    [input_text |-> SliceTo(chunk, -1), target_text |-> SliceTo(chunk, -1)]

\* def split_input_target(chunk)
split_input_target(chunk) ==
    [input_text |-> SliceTo(chunk, -1), target_text |-> SliceFrom(chunk, 1)]

\* Dataset.map(f)
map_split(seqs) == [k \in DOMAIN seqs |-> split_input_target(seqs[k])]

\* dataset.shuffle(BUFFER_SIZE).batch(BATCH_SIZE, drop_remainder=True): the
\* pipeline is lazy, and every pass over it draws a fresh order; what every
\* pass has in common is the number of its batches
shuffle_batch(exs) ==
    [source |-> exs, buffer_size |-> BUFFER_SIZE,
     batch_size |-> BATCH_SIZE, drop_remainder |-> TRUE]

\* the number of batches one pass over the pipeline yields
NumBatches(ds) ==
    IF ds.drop_remainder THEN Len(ds.source) \div ds.batch_size
    ELSE (Len(ds.source) + ds.batch_size - 1) \div ds.batch_size

\* ------------------------------------------------------------- the model
NoWeights == [origin |-> "none", steps |-> 0]
NoModel == [batch_size |-> 0, vocab_size |-> 0, stateful |-> FALSE,
            weights |-> NoWeights, states |-> <<>>]

\* a mutant: the LSTM layer is built without stateful=True
build_model_stateless(vsize, batch_size) ==
    [batch_size |-> batch_size, vocab_size |-> vsize, stateful |-> FALSE,
     weights |-> [origin |-> "init", steps |-> 0], states |-> <<>>]

\* def build_model(vocab_size, embedding_dim, rnn_units, batch_size): an
\* Embedding of vocab_size entries, a stateful LSTM that returns sequences, a
\* Dense layer of vocab_size logits; freshly initialized weights, zero state
build_model(vsize, batch_size) ==
    [batch_size |-> batch_size, vocab_size |-> vsize, stateful |-> TRUE,
     weights |-> [origin |-> "init", steps |-> 0], states |-> <<>>]

\* model.reset_states()
reset_states(m) == [m EXCEPT !.states = <<>>]

\* the hidden state a call model(inp) starts from: a stateful layer starts from
\* the state the previous call left, any other from the zero state
start_state(m) == IF m.stateful THEN m.states ELSE <<>>

\* the hidden state after model(inp)
states_after(m, ids) == start_state(m) \o ids

\* the logits of model(inp) for a batch of one row: one distribution over the
\* vocab_size classes per time step (return_sequences=True)
logits_of(m, ids) == [t \in DOMAIN ids |-> 0..(m.vocab_size - 1)]

\* one optimizer step
apply_gradients(w) == [w EXCEPT !.steps = @ + 1]

\* --------------------------------------------------------- checkpoints
\* a mutant: a file name without the epoch
checkpoint_name_fixed(ep) == 0

\* ModelCheckpoint formats filepath "ckpt_{epoch}" with epoch + 1 at the end
\* of (0-based) epoch ep; a checkpoint is named here by that number
checkpoint_name(ep) == ep + 1

\* model.save_weights(path): the file is written (or overwritten) and the
\* directory's checkpoint state names it as the most recent
save_weights(dir, name, w) ==
    [files |-> [n \in DOMAIN dir.files \cup {name} |->
                    IF n = name THEN w ELSE dir.files[n]],
     latest |-> <<name>>]

\* a mutant: the weights are not restored
load_weights_skipped(m, dir, name) == m

\* model.load_weights(path): the model's weights become the file's
load_weights(m, dir, name) == [m EXCEPT !.weights = dir.files[name]]

\* tf.train.latest_checkpoint(checkpoint_dir): <<>> stands for None
latest_checkpoint(dir) == dir.latest

EmptyDir == [files |-> <<>>, latest |-> <<>>]

\* ./training_checkpoints as an earlier complete run of the script leaves it:
\* ckpt_1 .. ckpt_EPOCHS, the last one written by line 421 being ckpt_{EPOCHS-1}
StaleDir == [files |-> [n \in 1..EPOCHS |-> [origin |-> "stale", steps |-> 0]],
             latest |-> <<EPOCHS - 1>>]

\* ------------------------------------------------------- generate_text
\* a mutant: one iteration too many
in_range_inclusive(k, n) == k <= n

\* for i in range(n): whether the loop has a k-th iteration (k from 0)
in_range(k, n) == k < n

\* a mutant: the whole output so far is fed back
next_input_all(ids, predicted) == <<ids \o <<predicted>>>>

\* input_eval = tf.expand_dims([predicted_id], 0)
next_input(ids, predicted) == <<<<predicted>>>>

\* a mutant: the start string is dropped from the result
join_result_without_start(start, generated) == generated

\* start_string + ''.join(text_generated)
join_result(start, generated) == start \o generated

\* ---------------------------------------------------------------- state
VARIABLES
    pc,              \* the statement the script is at
    text,            \* line 34
    vocab,           \* line 42
    char2idx,        \* line 53
    idx2char,        \* line 54
    text_as_int,     \* line 56
    sequences,       \* line 100
    examples,        \* line 115: dataset, before it is shuffled and batched
    dataset,         \* line 144
    vocab_size,      \* line 157
    model,           \* lines 179, 283, 375
    ckpt_dir,        \* ./training_checkpoints
    epoch,           \* the epoch model.fit or the custom loop is in
    batch_n,         \* line 407
    start_string,    \* generate_text's argument
    input_eval,      \* lines 317-318, 341
    text_generated,  \* line 321
    i,               \* line 330
    predictions,     \* lines 331-336
    predicted_id,    \* line 337
    returned,        \* line 345
    passes,          \* history: every forward pass of the running generate_text
    draws,           \* history: every id drawn by the running generate_text
    resets,          \* history: reset_states calls of the running generate_text
    chunk,           \* split_input_target's argument, called on its own
    split_out,       \* split_input_target's result, called on its own
    trace            \* history: the calls the custom training loop has made

vars == <<pc, text, vocab, char2idx, idx2char, text_as_int, sequences, examples,
          dataset, vocab_size, model, ckpt_dir, epoch, batch_n, start_string,
          input_eval, text_generated, i, predictions, predicted_id, returned,
          passes, draws, resets, chunk, split_out, trace>>

data_vars == <<text, vocab, char2idx, idx2char, text_as_int, sequences, examples,
               dataset, vocab_size>>
gen_vars == <<start_string, input_eval, text_generated, i, predictions,
              predicted_id, returned, passes, draws, resets>>
split_vars == <<chunk, split_out>>

\* ---------------------------------------------------------------- inputs
RECURSIVE SeqsUpTo(_, _)
SeqsUpTo(S, n) ==
    IF n = 0 THEN {<<>>}
    ELSE LET shorter == SeqsUpTo(S, n - 1)
         IN  shorter \cup {Append(s, x) : s \in {t \in shorter : Len(t) = n - 1}, x \in S}

\* k, k-1, .., 1, k, k-1, .. : n characters
Cycle(k, n) == [j \in 1..n |-> k - ((j - 1) % k)]

ShortTexts == SeqsUpTo(Alphabet, MaxTextLen)

\* texts long enough for 1..MaxBatches batches, with and without a remainder
LongTexts ==
    {Cycle(k, b * BATCH_SIZE * (seq_length + 1) + r) :
        k \in 1..MaxVocab, b \in 1..MaxBatches, r \in {0, 1}}

Texts == ShortTexts \cup LongTexts
StartStrings == SeqsUpTo(Alphabet, MaxStartLen)
Chunks == SeqsUpTo(0..(MaxChar - 1), MaxChunkLen)

Unbound ==
    /\ vocab = <<>> /\ char2idx = <<>> /\ idx2char = <<>> /\ text_as_int = <<>>
    /\ sequences = <<>> /\ examples = <<>>
    /\ dataset = shuffle_batch(<<>>)
    /\ vocab_size = 0 /\ model = NoModel
    /\ epoch = 0 /\ batch_n = 0
    /\ start_string = <<>> /\ input_eval = <<>> /\ text_generated = <<>>
    /\ i = 0 /\ predictions = <<>> /\ predicted_id = 0 /\ returned = <<>>
    /\ passes = <<>> /\ draws = <<>> /\ resets = 0
    /\ split_out = [input_text |-> <<>>, target_text |-> <<>>]
    /\ trace = <<>>

\* the script, after the text has been read (line 34)
Init ==
    /\ pc = "vocab"
    /\ text \in Texts
    /\ ckpt_dir \in {EmptyDir, StaleDir}
    /\ chunk = <<>>
    /\ Unbound

\* ------------------------------------------------- the script, lines 41-144
\* vocab = sorted(set(text))
MakeVocab ==
    /\ pc = "vocab"
    /\ vocab' = unique_chars(text)
    /\ pc' = "lookup"
    /\ UNCHANGED <<text, char2idx, idx2char, text_as_int, sequences, examples,
                   dataset, vocab_size, model, ckpt_dir, epoch, batch_n>>
    /\ UNCHANGED gen_vars /\ UNCHANGED split_vars /\ UNCHANGED trace

\* char2idx = {...}; idx2char = np.array(vocab)
MakeLookupTables ==
    /\ pc = "lookup"
    /\ char2idx' = make_char2idx(vocab)
    /\ idx2char' = make_idx2char(vocab)
    /\ pc' = "vectorize"
    /\ UNCHANGED <<text, vocab, text_as_int, sequences, examples,
                   dataset, vocab_size, model, ckpt_dir, epoch, batch_n>>
    /\ UNCHANGED gen_vars /\ UNCHANGED split_vars /\ UNCHANGED trace

\* text_as_int = np.array([char2idx[c] for c in text])
VectorizeText ==
    /\ pc = "vectorize"
    /\ text_as_int' = vectorize(char2idx, text)
    /\ pc' = "sequences"
    /\ UNCHANGED <<text, vocab, char2idx, idx2char, sequences, examples,
                   dataset, vocab_size, model, ckpt_dir, epoch, batch_n>>
    /\ UNCHANGED gen_vars /\ UNCHANGED split_vars /\ UNCHANGED trace

\* char_dataset = from_tensor_slices(text_as_int);
\* sequences = char_dataset.batch(seq_length + 1, drop_remainder=True)
MakeSequences ==
    /\ pc = "sequences"
    /\ sequences' = batch(text_as_int, seq_length + 1, TRUE)
    /\ pc' = "map"
    /\ UNCHANGED <<text, vocab, char2idx, idx2char, text_as_int, examples,
                   dataset, vocab_size, model, ckpt_dir, epoch, batch_n>>
    /\ UNCHANGED gen_vars /\ UNCHANGED split_vars /\ UNCHANGED trace

\* dataset = sequences.map(split_input_target)
MapSplit ==
    /\ pc = "map"
    /\ examples' = map_split(sequences)
    /\ pc' = "show_example"
    /\ UNCHANGED <<text, vocab, char2idx, idx2char, text_as_int, sequences,
                   dataset, vocab_size, model, ckpt_dir, epoch, batch_n>>
    /\ UNCHANGED gen_vars /\ UNCHANGED split_vars /\ UNCHANGED trace

\* lines 119-128: the loop over dataset.take(1) binds input_example only when
\* there is an example; line 125 reads it
ShowExample ==
    /\ pc = "show_example"
    /\ pc' = IF len(examples) = 0 THEN "NameError" ELSE "batch"
    /\ UNCHANGED data_vars /\ UNCHANGED <<model, ckpt_dir, epoch, batch_n>>
    /\ UNCHANGED gen_vars /\ UNCHANGED split_vars /\ UNCHANGED trace

\* dataset = dataset.shuffle(BUFFER_SIZE).batch(BATCH_SIZE, drop_remainder=True)
BatchDataset ==
    /\ pc = "batch"
    /\ dataset' = shuffle_batch(examples)
    /\ pc' = "build"
    /\ UNCHANGED <<text, vocab, char2idx, idx2char, text_as_int, sequences,
                   examples, vocab_size, model, ckpt_dir, epoch, batch_n>>
    /\ UNCHANGED gen_vars /\ UNCHANGED split_vars /\ UNCHANGED trace

\* ------------------------------------------------ the script, lines 156-289
\* vocab_size = len(vocab); model = build_model(len(vocab), .., BATCH_SIZE)
BuildModel ==
    /\ pc = "build"
    /\ vocab_size' = len(vocab)
    /\ model' = build_model(len(vocab), BATCH_SIZE)
    /\ pc' = "try"
    /\ UNCHANGED <<text, vocab, char2idx, idx2char, text_as_int, sequences,
                   examples, dataset, ckpt_dir, epoch, batch_n>>
    /\ UNCHANGED gen_vars /\ UNCHANGED split_vars /\ UNCHANGED trace

\* lines 196-221: the loop over dataset.take(1) runs the model on the first
\* batch and binds example_batch_predictions; without a batch, line 211 reads
\* an unbound name.  Lines 235-266 (loss, compile, the callback's
\* configuration) change nothing of the state.
TryModel ==
    /\ pc = "try"
    /\ IF NumBatches(dataset) = 0
       THEN /\ pc' = "NameError"
            /\ UNCHANGED <<model, epoch>>
       ELSE /\ model' = [model EXCEPT !.states = states_after(model, <<0>>)]
            /\ epoch' = 0
            /\ pc' = "fit"
    /\ UNCHANGED data_vars /\ UNCHANGED <<ckpt_dir, batch_n>>
    /\ UNCHANGED gen_vars /\ UNCHANGED split_vars /\ UNCHANGED trace

\* one epoch of training over n batches
train_epoch(m, n) ==
    [m EXCEPT !.weights = [@ EXCEPT !.steps = @ + n],
              !.states = states_after(m, [k \in 1..n |-> k - 1])]

\* model.fit(dataset, epochs=EPOCHS, callbacks=[checkpoint_callback]): one
\* epoch, and the callback's on_epoch_end that follows it
FitEpoch ==
    /\ pc = "fit"
    /\ epoch < EPOCHS
    /\ LET trained == train_epoch(model, NumBatches(dataset))
       IN  /\ model' = trained
           /\ ckpt_dir' = save_weights(ckpt_dir, checkpoint_name(epoch), trained.weights)
    /\ epoch' = epoch + 1
    /\ pc' = IF epoch + 1 < EPOCHS THEN "fit" ELSE "rebuild"
    /\ UNCHANGED data_vars /\ UNCHANGED batch_n
    /\ UNCHANGED gen_vars /\ UNCHANGED split_vars /\ UNCHANGED trace

\* model = build_model(vocab_size, embedding_dim, rnn_units, batch_size=1)
RebuildModel ==
    /\ pc = "rebuild"
    /\ model' = build_model(vocab_size, 1)
    /\ pc' = "load"
    /\ UNCHANGED data_vars /\ UNCHANGED <<ckpt_dir, epoch, batch_n>>
    /\ UNCHANGED gen_vars /\ UNCHANGED split_vars /\ UNCHANGED trace

\* model.load_weights(tf.train.latest_checkpoint(checkpoint_dir)); build; summary
LoadWeights ==
    /\ pc = "load"
    /\ LET found == latest_checkpoint(ckpt_dir)
       IN  IF found = <<>>
           THEN /\ pc' = "LoadError"
                /\ UNCHANGED model
           ELSE /\ model' = load_weights(model, ckpt_dir, found[1])
                /\ pc' = "generate"
    /\ UNCHANGED data_vars /\ UNCHANGED <<ckpt_dir, epoch, batch_n>>
    /\ UNCHANGED gen_vars /\ UNCHANGED split_vars /\ UNCHANGED trace

\* ------------------------------------------------ generate_text, lines 310-348
\* a mutant: the state is reset before the start string is vectorized
GenerateCall_reset_first ==
    /\ pc = "generate"
    /\ \E s \in StartStrings :
        /\ start_string' = s
        /\ model' = reset_states(model)
        /\ resets' = resets + 1
        /\ IF \E k \in DOMAIN s : s[k] \notin DOMAIN char2idx
           THEN /\ pc' = "KeyError"
                /\ UNCHANGED <<input_eval, text_generated, i>>
           ELSE /\ input_eval' = <<vectorize(char2idx, s)>>
                /\ text_generated' = <<>>
                /\ i' = 0
                /\ pc' = "gen_loop"
    /\ UNCHANGED data_vars /\ UNCHANGED <<ckpt_dir, epoch, batch_n>>
    /\ UNCHANGED <<predictions, predicted_id, returned, passes, draws>>
    /\ UNCHANGED split_vars /\ UNCHANGED trace

\* the call, up to the loop: lines 314-329
GenerateCall ==
    /\ pc = "generate"
    /\ \E s \in StartStrings :
        /\ start_string' = s
        /\ IF \E k \in DOMAIN s : s[k] \notin DOMAIN char2idx
           THEN /\ pc' = "KeyError"
                /\ UNCHANGED <<model, input_eval, text_generated, i, resets>>
           ELSE /\ input_eval' = <<vectorize(char2idx, s)>>
                /\ text_generated' = <<>>
                /\ model' = reset_states(model)
                /\ resets' = resets + 1
                /\ i' = 0
                /\ pc' = "gen_loop"
    /\ UNCHANGED data_vars /\ UNCHANGED <<ckpt_dir, epoch, batch_n>>
    /\ UNCHANGED <<predictions, predicted_id, returned, passes, draws>>
    /\ UNCHANGED split_vars /\ UNCHANGED trace

\* lines 330-336: predictions = model(input_eval), squeezed.  A batch of
\* another size than the model was built for is refused.  Of an input without
\* a time step the framework either refuses the pass or returns logits without
\* a time step.
GenForward ==
    /\ pc = "gen_loop"
    /\ in_range(i, num_generate)
    /\ IF len(input_eval) # model.batch_size
       THEN /\ pc' = "InvalidArgumentError"
            /\ UNCHANGED <<model, predictions, passes>>
       ELSE LET ids == input_eval[1]
                after == states_after(model, ids)
            IN  \/ /\ ids = <<>>
                   /\ pc' = "InvalidArgumentError"
                   /\ UNCHANGED <<model, predictions, passes>>
                \/ /\ predictions' = logits_of(model, ids)
                   /\ model' = [model EXCEPT !.states = after]
                   /\ passes' = Append(passes, [input |-> input_eval,
                                                state_in |-> start_state(model),
                                                state_out |-> after,
                                                weights |-> model.weights])
                   /\ pc' = "gen_sample"
    /\ UNCHANGED data_vars /\ UNCHANGED <<ckpt_dir, epoch, batch_n>>
    /\ UNCHANGED <<start_string, input_eval, text_generated, i, predicted_id,
                   returned, draws, resets>>
    /\ UNCHANGED split_vars /\ UNCHANGED trace

\* lines 337-343: one id is drawn from each time step's distribution and the
\* last one is taken; it becomes the next input; its character is appended
GenSample ==
    /\ pc = "gen_sample"
    /\ IF predictions = <<>>
       THEN /\ pc' = "InvalidArgumentError"
            /\ UNCHANGED <<input_eval, text_generated, i, predicted_id, draws>>
       ELSE \E id \in Index(predictions, -1) :
            /\ predicted_id' = id
            /\ draws' = Append(draws, id)
            /\ input_eval' = next_input(input_eval[1], id)
            /\ IF InRange(idx2char, id)
               THEN /\ text_generated' = Append(text_generated, Index(idx2char, id))
                    /\ i' = i + 1
                    /\ pc' = "gen_loop"
               ELSE /\ pc' = "IndexError"
                    /\ UNCHANGED <<text_generated, i>>
    /\ UNCHANGED data_vars /\ UNCHANGED <<model, ckpt_dir, epoch, batch_n>>
    /\ UNCHANGED <<start_string, predictions, returned, passes, resets>>
    /\ UNCHANGED split_vars /\ UNCHANGED trace

\* line 345: return start_string + ''.join(text_generated)
GenReturn ==
    /\ pc = "gen_loop"
    /\ ~in_range(i, num_generate)
    /\ returned' = join_result(start_string, text_generated)
    /\ pc' = "print"
    /\ UNCHANGED data_vars /\ UNCHANGED <<model, ckpt_dir, epoch, batch_n>>
    /\ UNCHANGED <<start_string, input_eval, text_generated, i, predictions,
                   predicted_id, passes, draws, resets>>
    /\ UNCHANGED split_vars /\ UNCHANGED trace

\* line 348: print(..); the call's frame and its result are gone after it
PrintGenerated ==
    /\ pc = "print"
    /\ start_string' = <<>> /\ input_eval' = <<>> /\ text_generated' = <<>>
    /\ i' = 0 /\ predictions' = <<>> /\ predicted_id' = 0 /\ returned' = <<>>
    /\ passes' = <<>> /\ draws' = <<>> /\ resets' = 0
    /\ pc' = "custom_build"
    /\ UNCHANGED data_vars /\ UNCHANGED <<model, ckpt_dir, epoch, batch_n>>
    /\ UNCHANGED split_vars /\ UNCHANGED trace

\* ----------------------------------------- the custom training, lines 375-421
\* one call of the loop, as the history keeps it
Call(op) == [op |-> op, epoch |-> epoch, batch_n |-> batch_n]

\* a mutant: the 0-based epoch is tested
save_due_zero_based(ep) == ep % 5 = 0

\* if (epoch + 1) % 5 == 0
save_due(ep) == (ep + 1) % 5 = 0

\* model = build_model(len(vocab), .., BATCH_SIZE); optimizer = Adam()
CustomBuild ==
    /\ pc = "custom_build"
    /\ model' = build_model(len(vocab), BATCH_SIZE)
    /\ epoch' = 0
    /\ pc' = "epoch_start"
    /\ UNCHANGED data_vars /\ UNCHANGED <<ckpt_dir, batch_n>>
    /\ UNCHANGED gen_vars /\ UNCHANGED split_vars /\ UNCHANGED trace

\* a mutant: the epoch starts without the reset
EpochStart_without_reset ==
    /\ pc = "epoch_start"
    /\ batch_n' = 0
    /\ pc' = "train"
    /\ UNCHANGED data_vars /\ UNCHANGED <<model, ckpt_dir, epoch>>
    /\ UNCHANGED gen_vars /\ UNCHANGED split_vars /\ UNCHANGED trace

\* lines 400-405: hidden = model.reset_states()
EpochStart ==
    /\ pc = "epoch_start"
    /\ model' = reset_states(model)
    /\ batch_n' = 0
    /\ trace' = Append(trace, [Call("reset_states") EXCEPT !.batch_n = 0])
    /\ pc' = "train"
    /\ UNCHANGED data_vars /\ UNCHANGED <<ckpt_dir, epoch>>
    /\ UNCHANGED gen_vars /\ UNCHANGED split_vars

\* lines 407-412: loss = train_step(inp, target)
TrainStep ==
    /\ pc = "train"
    /\ batch_n < NumBatches(dataset)
    /\ model' = [model EXCEPT !.weights = apply_gradients(@),
                              !.states = states_after(model, <<batch_n>>)]
    /\ batch_n' = batch_n + 1
    /\ trace' = Append(trace, Call("train_step"))
    /\ UNCHANGED pc
    /\ UNCHANGED data_vars /\ UNCHANGED <<ckpt_dir, epoch>>
    /\ UNCHANGED gen_vars /\ UNCHANGED split_vars

\* lines 414-419, and the loop's next epoch
EpochEnd ==
    /\ pc = "train"
    /\ batch_n >= NumBatches(dataset)
    /\ IF save_due(epoch)
       THEN /\ ckpt_dir' = save_weights(ckpt_dir, epoch, model.weights)
            /\ trace' = Append(trace, Call("save_weights"))
       ELSE UNCHANGED <<ckpt_dir, trace>>
    /\ IF epoch + 1 < EPOCHS
       THEN epoch' = epoch + 1 /\ pc' = "epoch_start"
       ELSE epoch' = epoch /\ pc' = "final_save"
    /\ UNCHANGED data_vars /\ UNCHANGED <<model, batch_n>>
    /\ UNCHANGED gen_vars /\ UNCHANGED split_vars

\* line 421: model.save_weights(checkpoint_prefix.format(epoch=epoch))
FinalSave ==
    /\ pc = "final_save"
    /\ ckpt_dir' = save_weights(ckpt_dir, epoch, model.weights)
    /\ trace' = Append(trace, Call("save_weights_after_loop"))
    /\ pc' = "done"
    /\ UNCHANGED data_vars /\ UNCHANGED <<model, epoch, batch_n>>
    /\ UNCHANGED gen_vars /\ UNCHANGED split_vars

Next ==
    \/ MakeVocab \/ MakeLookupTables \/ VectorizeText \/ MakeSequences
    \/ MapSplit \/ ShowExample \/ BatchDataset \/ BuildModel \/ TryModel
    \/ FitEpoch \/ RebuildModel \/ LoadWeights
    \/ GenerateCall \/ GenForward \/ GenSample \/ GenReturn \/ PrintGenerated
    \/ CustomBuild \/ EpochStart \/ TrainStep \/ EpochEnd \/ FinalSave

Spec == Init /\ [][Next]_vars

\* the interpreter runs the script's next statement as long as there is one
FairSpec == Spec /\ WF_vars(Next)

\* ------------------------------------------ split_input_target on its own
InitSplit ==
    /\ pc = "split_call"
    /\ chunk \in Chunks
    /\ text = <<>>
    /\ ckpt_dir = EmptyDir
    /\ Unbound

SplitCall ==
    /\ pc = "split_call"
    /\ split_out' = split_input_target(chunk)
    /\ pc' = "split_done"
    /\ UNCHANGED data_vars /\ UNCHANGED <<model, ckpt_dir, epoch, batch_n, chunk>>
    /\ UNCHANGED gen_vars /\ UNCHANGED trace

NextSplit == SplitCall

SpecSplit == InitSplit /\ [][NextSplit]_vars

\* ================================================================ claims
\* the characters that occur in the text
CharsOfText == {c \in Alphabet : \E k \in DOMAIN text : text[k] = c}

\* how often c occurs in the list xs
Occurrences(xs, c) == Cardinality({k \in DOMAIN xs : xs[k] = c})

VocabBound == pc \notin {"vocab", "split_call", "split_done"}
TablesBound == VocabBound /\ pc # "lookup"
TextVectorized == TablesBound /\ pc # "vectorize"
ExamplesBound == TextVectorized /\ pc \notin {"sequences", "map"}
VocabSizeBound == ExamplesBound /\ pc \notin {"show_example", "batch", "build", "NameError"}

\* C1: once vocab is bound, every character of the text occurs in it exactly
\* once and no other character occurs in it; once vocab_size is bound, it and
\* len(vocab) equal the number of distinct characters of the text.
C1_VocabIsTheDistinctChars ==
    /\ VocabBound =>
          /\ \A c \in Alphabet :
                Occurrences(vocab, c) = IF c \in CharsOfText THEN 1 ELSE 0
          /\ \A k \in DOMAIN vocab : vocab[k] \in CharsOfText
          /\ len(vocab) = Cardinality(CharsOfText)
    /\ VocabSizeBound => vocab_size = Cardinality(CharsOfText)

C1_Witness ==
    /\ pc = "fit"
    /\ vocab_size = 2
    /\ Len(text) > 2

\* C2: once the lookup tables are bound, idx2char[char2idx[c]] = c for every
\* character c of the vocabulary and char2idx[idx2char[i]] = i for every i in
\* 0..len(vocab)-1, and char2idx maps the vocabulary into 0..len(vocab)-1.
C2_LookupTablesAreInverse ==
    TablesBound =>
        /\ DOMAIN char2idx = {vocab[k] : k \in DOMAIN vocab}
        /\ \A c \in DOMAIN char2idx :
              /\ char2idx[c] \in 0..(len(vocab) - 1)
              /\ InRange(idx2char, char2idx[c])
              /\ Index(idx2char, char2idx[c]) = c
        /\ \A j \in 0..(len(vocab) - 1) :
              /\ InRange(idx2char, j)
              /\ Index(idx2char, j) \in DOMAIN char2idx
              /\ char2idx[Index(idx2char, j)] = j

C2_Witness ==
    /\ pc = "vectorize"
    /\ len(vocab) = MaxChar
    /\ Len(text) > MaxChar

\* C3: for a chunk of length n >= 1, split_input_target returns an input and a
\* target of length n-1 with input[j] = chunk[j] and target[j] = chunk[j+1]
\* for j in 0..n-2, so target[j] = input[j+1] where both are defined.
C3_SplitIsOffsetByOne ==
    (pc = "split_done" /\ Len(chunk) >= 1) =>
        LET n == Len(chunk)
            inp == split_out.input_text
            tgt == split_out.target_text
        IN  /\ Len(inp) = n - 1
            /\ Len(tgt) = n - 1
            /\ \A j \in 0..(n - 2) :
                  /\ Index(inp, j) = Index(chunk, j)
                  /\ Index(tgt, j) = Index(chunk, j + 1)
            /\ \A j \in 0..(n - 3) : Index(tgt, j) = Index(inp, j + 1)

C3_Witness ==
    /\ pc = "split_done"
    /\ Len(chunk) = 3
    /\ chunk[1] # chunk[2] /\ chunk[2] # chunk[3]
    /\ split_out.input_text = <<chunk[1], chunk[2]>>

\* C4: once the text is vectorized, text_as_int is as long as the text, each
\* of its entries is in 0..len(vocab)-1, and idx2char[text_as_int[k]] is the
\* text's k-th character.
C4_VectorizationIsLossless ==
    TextVectorized =>
        /\ Len(text_as_int) = Len(text)
        /\ \A k \in DOMAIN text_as_int :
              /\ text_as_int[k] \in 0..(len(vocab) - 1)
              /\ InRange(idx2char, text_as_int[k])
              /\ Index(idx2char, text_as_int[k]) = text[k]

C4_Witness ==
    /\ pc = "sequences"
    /\ len(vocab) >= 2
    /\ Len(text) >= 3
    /\ text[1] # text[2]
    /\ text_as_int[1] > text_as_int[2]

\* C5: once the examples are mapped, every example's input and target hold
\* exactly seq_length ids, whatever the length of the text.
C5_ExamplesHaveSeqLength ==
    ExamplesBound =>
        /\ Len(examples) = Len(text) \div (seq_length + 1)
        /\ \A k \in DOMAIN examples :
              /\ Len(examples[k].input_text) = seq_length
              /\ Len(examples[k].target_text) = seq_length

C5_Witness ==
    /\ pc = "show_example"
    /\ Len(examples) >= 1
    /\ Len(text) % (seq_length + 1) # 0

\* generate_text has been called and its start string was vectorized
GenRunning == pc \in {"gen_loop", "gen_sample", "print", "InvalidArgumentError", "IndexError"}

\* every character of the start string is in the vocabulary
StartInVocab == \A k \in DOMAIN start_string : \E j \in DOMAIN vocab : vocab[j] = start_string[k]

\* what a run of generate_text has done when the loop is at its i-th iteration:
\* i forward passes and i draws before a pass, one more pass before the draw
LoopCounts ==
    /\ pc = "gen_loop" => (Len(passes) = i /\ Len(draws) = i /\ i <= num_generate)
    /\ pc = "gen_sample" => (Len(passes) = i + 1 /\ Len(draws) = i /\ i < num_generate)
    /\ pc = "print" => (i = num_generate /\ Len(passes) = num_generate
                        /\ Len(draws) = num_generate)

\* C6 as stated: with a start string whose characters are all in the
\* vocabulary, generate_text raises nothing, each of its iterations is one
\* forward pass followed by one draw, and it returns after num_generate of
\* them.
C6_Original_AnyStartInVocab ==
    (GenRunning /\ StartInVocab) =>
        /\ pc \notin {"InvalidArgumentError", "IndexError"}
        /\ LoopCounts

C6_Safety ==
    (GenRunning /\ StartInVocab /\ start_string # <<>>) =>
        /\ pc \notin {"InvalidArgumentError", "IndexError"}
        /\ LoopCounts

\* C6, amended: with a start string that is not empty and whose characters are
\* all in the vocabulary, generate_text raises nothing, each of its iterations
\* is one forward pass followed by one draw, and the call, once its loop is
\* entered, returns, after exactly num_generate iterations.
C6_GenerateTerminates ==
    /\ []C6_Safety
    /\ (pc = "gen_loop" /\ start_string # <<>>) ~> (pc = "print")

C6_Witness ==
    /\ pc = "print"
    /\ start_string # <<>>
    /\ Len(passes) = num_generate
    /\ Len(draws) = num_generate

\* C7: the string generate_text returns starts with start_string, continues
\* with exactly num_generate characters of the vocabulary, and no drawn id is
\* ever outside idx2char.
C7_ReturnedString ==
    /\ pc # "IndexError"
    /\ \A k \in DOMAIN draws : InRange(idx2char, draws[k])
    /\ pc = "print" =>
          /\ Len(returned) = Len(start_string) + num_generate
          /\ SubSeq(returned, 1, Len(start_string)) = start_string
          /\ \A k \in (Len(start_string) + 1)..Len(returned) :
                \E j \in DOMAIN vocab : vocab[j] = returned[k]

C7_Witness ==
    /\ pc = "print"
    /\ Len(start_string) = MaxStartLen
    /\ returned[Len(returned)] # returned[Len(returned) - 1]

\* C8: the first forward pass of generate_text is given the whole vectorized
\* start string; every later pass k is given exactly the one id drawn in
\* iteration k-1, whose character is the (k-1)-th generated character.
C8_PredictedIdIsNextInput ==
    GenRunning =>
        /\ Len(passes) >= 1 =>
              passes[1].input = <<[k \in DOMAIN start_string |-> char2idx[start_string[k]]]>>
        /\ \A k \in 2..Len(passes) :
              /\ passes[k].input = <<<<draws[k - 1]>>>>
              /\ text_generated[k - 1] = Index(idx2char, draws[k - 1])

C8_Witness ==
    /\ pc = "gen_sample"
    /\ Len(passes) >= 2
    /\ Len(start_string) >= 2
    /\ passes[2].input # <<<<passes[1].input[1][Len(start_string)]>>>>

\* C9: a running generate_text has reset the RNN state exactly once; its first
\* forward pass starts from the zero state, and every later pass starts from
\* the state the pass before it produced, which holds everything fed so far.
C9_StateIsCarried ==
    GenRunning =>
        /\ resets = 1
        /\ Len(passes) >= 1 => passes[1].state_in = <<>>
        /\ \A k \in 1..(Len(passes) - 1) :
              /\ passes[k + 1].state_in = passes[k].state_out
              /\ passes[k + 1].state_out = passes[k].state_out \o passes[k + 1].input[1]
        /\ Len(passes) >= 1 => model.states = passes[Len(passes)].state_out

C9_Witness ==
    /\ pc = "gen_sample"
    /\ Len(passes) >= 2
    /\ passes[2].state_in # <<>>
    /\ passes[2].state_out # passes[2].state_in

\* C10: while model.fit runs and when it has returned, the checkpoint of every
\* finished epoch e is in the directory under its own name and holds the
\* weights of the end of epoch e, the latest checkpoint is the one of the last
\* finished epoch, and after EPOCHS epochs fit has written EPOCHS checkpoints.
C10_CheckpointEveryEpoch ==
    pc \in {"fit", "rebuild"} =>
        LET written == {n \in DOMAIN ckpt_dir.files : ckpt_dir.files[n].origin = "init"}
        IN  /\ Cardinality(written) = epoch
            /\ \A e \in 1..epoch :
                  /\ e \in written
                  /\ ckpt_dir.files[e].steps = e * NumBatches(dataset)
            /\ epoch >= 1 => latest_checkpoint(ckpt_dir) = <<epoch>>
            /\ pc = "rebuild" => epoch = EPOCHS

C10_Witness ==
    /\ pc = "rebuild"
    /\ Cardinality(DOMAIN ckpt_dir.files) = EPOCHS
    /\ latest_checkpoint(ckpt_dir) = <<EPOCHS>>
    /\ NumBatches(dataset) = MaxBatches

\* generate_text is about to be called, runs, or has raised
GenPhase == pc = "generate" \/ pc = "KeyError" \/ GenRunning

\* what holds of the model generate_text is given
C11_RestoredModel ==
    GenPhase =>
        /\ epoch = EPOCHS
        /\ model.batch_size = 1
        /\ ckpt_dir.latest = <<EPOCHS>>
        /\ model.weights = ckpt_dir.files[EPOCHS]
        /\ model.weights = [origin |-> "init", steps |-> EPOCHS * NumBatches(dataset)]
        /\ \A k \in DOMAIN passes : passes[k].weights = ckpt_dir.files[EPOCHS]

\* C11: the script reaches the call of generate_text only from the load of the
\* weights, the load only from the rebuild, and the rebuild only from the end
\* of model.fit's last epoch; the model generate_text is given has batch size
\* 1 and the weights of the latest checkpoint, which is the one of the last
\* epoch, and every forward pass of the generation uses those weights.
C11_GenerateAfterRestore ==
    /\ []C11_RestoredModel
    /\ [][(pc' = "generate" /\ pc # "generate") => pc = "load"]_vars
    /\ [][(pc' = "load" /\ pc # "load") => pc = "rebuild"]_vars
    /\ [][(pc' = "rebuild" /\ pc # "rebuild") => (pc = "fit" /\ epoch' = EPOCHS)]_vars
    /\ [][(pc' \in {"gen_loop", "KeyError"} /\ pc \notin {"gen_loop", "gen_sample"})
            => pc = "generate"]_vars

C11_Witness ==
    /\ pc = "gen_sample"
    /\ Len(passes) >= 2
    /\ passes[2].weights.steps = EPOCHS * MaxBatches
    /\ model.batch_size = 1

\* the custom training loop runs or has run
InCustomLoop == pc \in {"epoch_start", "train", "final_save", "done"}

\* the positions of the history at which op was called in epoch e
Calls(op, e) == {k \in DOMAIN trace : trace[k].op = op /\ trace[k].epoch = e}

\* epoch e (0-based) of the custom loop has begun its batches / has ended
EpochStarted(e) == e < epoch \/ (e = epoch /\ pc \in {"train", "final_save", "done"})
EpochEnded(e) == e < epoch \/ (e = epoch /\ pc \in {"final_save", "done"})

\* C12: inside the custom loop save_weights has been called for an ended epoch
\* exactly once if the epoch's 1-based number is a multiple of 5 and not at
\* all otherwise, never for an epoch that has not ended; the call comes after
\* all of the epoch's train steps, and the file holds the weights they left.
C12_SaveEveryFiveEpochs ==
    InCustomLoop =>
        \A e \in 0..(EPOCHS - 1) :
            LET saves == Calls("save_weights", e)
                steps == Calls("train_step", e)
            IN  /\ ~EpochEnded(e) => saves = {}
                /\ EpochEnded(e) =>
                      /\ Cardinality(saves) = IF (e + 1) % 5 = 0 THEN 1 ELSE 0
                      /\ \A k \in saves :
                            /\ Cardinality(steps) = NumBatches(dataset)
                            /\ \A j \in steps : j < k
                      /\ (e + 1) % 5 = 0 =>
                            /\ e \in DOMAIN ckpt_dir.files
                            /\ ckpt_dir.files[e].steps = (e + 1) * NumBatches(dataset)

C12_Witness ==
    /\ pc = "final_save"
    /\ Calls("save_weights", 4) # {}
    /\ Calls("save_weights", 9) # {}
    /\ Calls("save_weights", 5) = {}
    /\ NumBatches(dataset) = MaxBatches

\* C13: reset_states has been called exactly once for every epoch the custom
\* loop has begun, before all of that epoch's train steps, and no call of it
\* lies between two train steps of one epoch; so within an epoch the hidden
\* state holds the batches of that epoch alone.
C13_ResetOncePerEpoch ==
    InCustomLoop =>
        /\ \A e \in 0..(EPOCHS - 1) :
              LET resets_e == Calls("reset_states", e)
                  steps == Calls("train_step", e)
              IN  /\ ~EpochStarted(e) => resets_e = {}
                  /\ EpochStarted(e) =>
                        /\ Cardinality(resets_e) = 1
                        /\ \A r \in resets_e : \A j \in steps : r < j
                  /\ \A j1 \in steps : \A j2 \in steps :
                        \A k \in DOMAIN trace :
                            (j1 < k /\ k < j2) => trace[k].op # "reset_states"
        /\ pc = "train" => model.states = [k \in 1..batch_n |-> k - 1]

C13_Witness ==
    /\ pc = "train"
    /\ epoch >= 1
    /\ batch_n >= 2
    /\ Cardinality(Calls("train_step", epoch)) = batch_n
    /\ Cardinality(Calls("reset_states", epoch)) = 1

\* C14: generate_text called with a start string that holds a character
\* outside the vocabulary ends in KeyError, and only such a call does; when it
\* has, the model's state was not reset, no forward pass and no draw was made,
\* nothing was generated or returned, and the script takes no further step.
C14_KeyErrorOnUnknownChar ==
    /\ ((pc = "KeyError" \/ GenRunning) /\ ~StartInVocab) =>
          /\ pc = "KeyError"
          /\ resets = 0
          /\ passes = <<>> /\ draws = <<>>
          /\ text_generated = <<>> /\ returned = <<>>
          /\ ~ENABLED Next
    /\ pc = "KeyError" => ~StartInVocab

C14_Witness ==
    /\ pc = "KeyError"
    /\ Len(start_string) = 2
    /\ start_string[1] \in DOMAIN char2idx
    /\ start_string[2] \notin DOMAIN char2idx
    /\ resets = 0

====
